---- MODULE Spec2Model ----
(***************************************************************************)
(* ComwareLikeDevice (netdev/comware_like.py): the prompt probe, the       *)
(* verified system-view transitions and send_config_set, driven by one     *)
(* caller over one transport whose far end is the device (Spec); the       *)
(* prompt pattern built at session setup (SpecSetup); two tasks sharing    *)
(* one session (SpecConc).                                                 *)
(*                                                                         *)
(* Texts are sequences of tokens (single characters, or one token for a    *)
(* whole command word).  Every coroutine is a frame on `stack`; one action *)
(* is one stretch of a coroutine between two suspension points.            *)
(***************************************************************************)
EXTENDS Naturals, Sequences, FiniteSets

VARIABLES
    devMode,    \* the mode the device really is in
    healthy,    \* the device obeys commands and answers every line with its prompt
    wire,       \* prompt units the device has sent and nobody has read yet
    stack,      \* the coroutine frames of the running call, innermost last
    trace,      \* what the running (or last) call did: call, W, R, ret, raise events
    lastRead,   \* the text the latest _read_until_prompt of the call gave
    result,     \* what the running (or last) call gave its caller
    hist,       \* on a healthy device: outcome of the two calls before it, older first
    delimiters, \* the class's _delimiter_left_list and _delimiter_list
    found_prompt,   \* what _find_prompt gives at session setup
    base_prompt,    \* self._base_prompt
    base_pattern,   \* self._base_pattern
    setup,      \* "new" before _set_base_prompt, then what it gave
    tried,      \* the latest text searched with the pattern, and what came of it
    stale,      \* outcome of the caller's last call before somebody else changed the mode
    me,         \* the task that is running: 1 or 2
    parked,     \* the call of the task that is not running
    serialized, \* the tasks never start a call while the other's is unfinished
    owner,      \* for every unit on the wire, the task whose write it answers
    misread     \* some task has read a unit that answers the other task's write

\* what session setup leaves behind
session == <<delimiters, found_prompt, base_prompt, base_pattern, setup, tried>>

\* the tasks sharing the session
tasks == <<me, parked, serialized>>

\* whose answer is where on the transport
link == <<owner, misread>>

vars == <<devMode, healthy, wire, stack, trace, lastRead, result, hist, session,
          stale, tasks, link>>

\* ---------------------------------------------------------------- bounds

\* the longest config_commands list a caller passes
MaxCmds == 2

\* the longest run of arbitrary characters at the end of a hostname
MaxTail == 2

\* ------------------------------------------------------ class attributes

system_view_enter == <<"system-view">>

system_view_exit == <<"return">>

system_view_check == "]"

\* ---------------------------------------------------------------- texts

Range(s) == {s[i] : i \in 1..Len(s)}

RECURSIVE rstrip(_)
\* str.rstrip("\n")
rstrip(s) ==
    IF s # <<>> /\ s[Len(s)] = "\n" THEN rstrip(SubSeq(s, 1, Len(s) - 1)) ELSE s

\* BaseDevice._normalize_cmd: the command with exactly one line terminator
normalize_cmd(cmd) == Append(rstrip(cmd), "\n")

RECURSIVE normalize_linefeeds(_)
\* BaseDevice._normalize_linefeeds: "\r\r\n", "\r\n" and "\n\r" become "\n"
normalize_linefeeds(s) ==
    IF s = <<>> THEN <<>>
    ELSE IF Len(s) >= 3 /\ SubSeq(s, 1, 3) = <<"\r", "\r", "\n">>
        THEN <<"\n">> \o normalize_linefeeds(SubSeq(s, 4, Len(s)))
    ELSE IF Len(s) >= 2 /\ SubSeq(s, 1, 2) \in {<<"\r", "\n">>, <<"\n", "\r">>}
        THEN <<"\n">> \o normalize_linefeeds(SubSeq(s, 3, Len(s)))
    ELSE <<Head(s)>> \o normalize_linefeeds(Tail(s))

\* ------------------------------------------------------ _set_base_prompt

\* _delimiter_left_list and _delimiter_list of ComwareLikeDevice
ComwareDelimiters == [left |-> <<"<", "[">>, right |-> <<">", "]">>]

\* (mutation) nothing may stand between the hostname characters and the closer
pattern_no_suffix == <<"[", "{}", "]", "{}", "[", "{}", "]">>

\* _pattern = r"[{}]{}[\-\w]*[{}]", "{}" standing for one replacement field
pattern == <<"[", "{}", "]", "{}", "[", "\\", "-", "\\", "w", "]", "*", "[", "{}", "]">>

\* the hostname characters kept in the pattern: self._base_prompt[:12]
TruncLen == 12

\* the characters \w stands for, among those the model writes prompts with
WordChars == {"a", "s", "w", "i", "t", "c", "h", "1", "_"}

RECURSIVE re_escape(_)
\* re.escape: a backslash before every character that is no word character
re_escape(s) ==
    IF s = <<>> THEN <<>>
    ELSE (IF Head(s) \in WordChars THEN <<Head(s)>> ELSE <<"\\", Head(s)>>)
         \o re_escape(Tail(s))

RECURSIVE join(_, _)
\* sep.join(parts)
join(sep, parts) ==
    IF parts = <<>> THEN <<>>
    ELSE IF Len(parts) = 1 THEN Head(parts)
    ELSE Head(parts) \o sep \o join(sep, Tail(parts))

RECURSIVE format(_, _)
\* str.format: the replacement fields take the arguments in order
format(p, args) ==
    IF p = <<>> THEN <<>>
    ELSE IF Head(p) = "{}" THEN Head(args) \o format(Tail(p), Tail(args))
    ELSE <<Head(p)>> \o format(Tail(p), args)

\* map(re.escape, list) over a list of one-character strings
escape_each(list) == [i \in 1..Len(list) |-> re_escape(<<list[i]>>)]

\* lines 76-82: the pattern built for the hostname text and the two delimiter lists
build_pattern(text, d) ==
    format(pattern, << join(<<"|">>, escape_each(d.left)),
                       re_escape(SubSeq(text, 1, IF Len(text) < TruncLen THEN Len(text)
                                                 ELSE TruncLen)),
                       join(<<"|">>, escape_each(d.right)) >>)

\* prompt[1:-1]
strip_ends(prompt) ==
    IF Len(prompt) < 2 THEN <<>> ELSE SubSeq(prompt, 2, Len(prompt) - 1)

\* ------------------------------------------------ the re module's matching

\* one item of a pattern: the characters it takes, and whether it may repeat
Atom(chars, word, any, star) == [chars |-> chars, word |-> word, any |-> any, star |-> star]

RECURSIVE ClassEnd(_, _)
\* the index of the "]" that closes the character set whose body starts at i
ClassEnd(p, i) ==
    IF i > Len(p) THEN i
    ELSE IF p[i] = "\\" THEN ClassEnd(p, i + 2)
    ELSE IF p[i] = "]" THEN i
    ELSE ClassEnd(p, i + 1)

RECURSIVE ClassAtom(_, _, _)
\* the character set whose body is p[i..j-1]: \w is the word characters, \c is c,
\* and any other character, "|" included, is itself
ClassAtom(p, i, j) ==
    IF i >= j THEN Atom({}, FALSE, FALSE, FALSE)
    ELSE IF p[i] = "\\" /\ i + 1 < j
        THEN LET rest == ClassAtom(p, i + 2, j)
             IN  IF p[i + 1] = "w" THEN [rest EXCEPT !.word = TRUE]
                 ELSE [rest EXCEPT !.chars = @ \cup {p[i + 1]}]
    ELSE LET rest == ClassAtom(p, i + 1, j)
         IN  [rest EXCEPT !.chars = @ \cup {p[i]}]

\* atom a, repeating if a "*" stands at index k of p
Starred(p, k, a) == IF k <= Len(p) /\ p[k] = "*" THEN [a EXCEPT !.star = TRUE] ELSE a

\* the index after the item that ends before k, a "*" skipped
AfterStar(p, k) == IF k <= Len(p) /\ p[k] = "*" THEN k + 1 ELSE k

RECURSIVE Atoms(_, _)
\* re.compile: the items of pattern text p from index i
Atoms(p, i) ==
    IF i > Len(p) THEN <<>>
    ELSE IF p[i] = "["
        THEN LET j == ClassEnd(p, i + 1)
             IN  <<Starred(p, j + 1, ClassAtom(p, i + 1, j))>> \o Atoms(p, AfterStar(p, j + 1))
    ELSE IF p[i] = "\\" /\ i < Len(p)
        THEN <<Starred(p, i + 2, IF p[i + 1] = "w" THEN Atom({}, TRUE, FALSE, FALSE)
                                 ELSE Atom({p[i + 1]}, FALSE, FALSE, FALSE))>>
             \o Atoms(p, AfterStar(p, i + 2))
    ELSE IF p[i] = "."
        THEN <<Starred(p, i + 1, Atom({}, FALSE, TRUE, FALSE))>> \o Atoms(p, AfterStar(p, i + 1))
    ELSE <<Starred(p, i + 1, Atom({p[i]}, FALSE, FALSE, FALSE))>> \o Atoms(p, AfterStar(p, i + 1))

Takes(a, c) == a.any \/ c \in a.chars \/ (a.word /\ c \in WordChars)

RECURSIVE MatchFrom(_, _, _, _, _)
\* the items atoms[k..] take s[i..]: all of it if whole, else some start of it
MatchFrom(atoms, k, s, i, whole) ==
    IF k > Len(atoms) THEN ~whole \/ i = Len(s) + 1
    ELSE IF atoms[k].star
        THEN \/ MatchFrom(atoms, k + 1, s, i, whole)
             \/ i <= Len(s) /\ Takes(atoms[k], s[i]) /\ MatchFrom(atoms, k, s, i + 1, whole)
    ELSE i <= Len(s) /\ Takes(atoms[k], s[i]) /\ MatchFrom(atoms, k + 1, s, i + 1, whole)

\* re.fullmatch(p, s) is not None
fullmatch(p, s) == LET atoms == Atoms(p, 1) IN MatchFrom(atoms, 1, s, 1, TRUE)

\* re.search(p, s) is not None: the pattern matches from some index of s
search(p, s) ==
    LET atoms == Atoms(p, 1)
    IN  \E i \in 1..(Len(s) + 1) : MatchFrom(atoms, 1, s, i, FALSE)

\* ---------------------------------------------------------------- device

Modes == {"UserView", "SystemView"}

\* the prompt unit a device in mode m ends its answer with
Prompt(m) ==
    <<"\r", "\n">> \o (IF m = "UserView" THEN <<"<", "h", ">">> ELSE <<"[", "h", "]">>)

\* an answer in user view whose body happens to hold the check marker
NoisyAnswer == <<"\r", "\n", "]", "\r", "\n", "<", "h", ">">>

\* the unit standing for an answer that never comes: the read of it times out
TimeoutUnit == <<"#timeout">>

\* the mode a device that obeys is in after the line
Obey(line, m) ==
    IF rstrip(line) = system_view_enter THEN "SystemView"
    ELSE IF rstrip(line) = system_view_exit THEN "UserView"
    ELSE m

\* what the device may do with one line: [mode, text]
Device(line) ==
    IF healthy
    THEN {[mode |-> Obey(line, devMode), text |-> Prompt(Obey(line, devMode))]}
    ELSE {[mode |-> m, text |-> t] :
            m \in {devMode, Obey(line, devMode)},
            t \in {Prompt("UserView"), Prompt("SystemView"), NoisyAnswer, TimeoutUnit}}

\* self._stdin.write(text): the line reaches the device, which answers
stdin_write(text) ==
    \E a \in Device(text) :
        /\ devMode' = a.mode
        /\ wire' = Append(wire, a.text)
        /\ owner' = Append(owner, me)
        /\ UNCHANGED misread

\* await self._read_until_prompt(): blocks until a prompt unit is there, and takes it
read_until_prompt ==
    /\ wire # <<>>
    /\ wire' = Tail(wire)
    /\ lastRead' = Head(wire)
    /\ owner' = Tail(owner)
    /\ misread' = (misread \/ Head(owner) # me)

\* ---------------------------------------------------------------- frames

\* the configuration commands a caller may pass
ConfigCommands == {<<"vlan 10">>, <<"undo vlan 10">>}

RECURSIVE SeqsUpTo(_, _)
SeqsUpTo(S, n) ==
    IF n = 0 THEN {<<>>}
    ELSE SeqsUpTo(S, n - 1) \cup
         {Append(s, x) : s \in {t \in SeqsUpTo(S, n - 1) : Len(t) = n - 1}, x \in S}

\* the values of the config_commands argument: None, or a list
NoneArg == [isNone |-> TRUE, list |-> <<>>]

ListArg(l) == [isNone |-> FALSE, list |-> l]

Frame(fn, cmds, exitAfter) ==
    [fn |-> fn, pc |-> "start", output |-> <<>>, chk |-> FALSE, ret |-> <<>>,
     config_commands |-> cmds, exit_system_view |-> exitAfter]

Top == stack[Len(stack)]

Below == SubSeq(stack, 1, Len(stack) - 1)

At(fn, pc) == stack # <<>> /\ Top.fn = fn /\ Top.pc = pc

BoolStr(b) == IF b THEN "True" ELSE "False"

\* a call that has not ended yet: coroutine, arguments, and nothing given back
NoResult(op, cmds, exitAfter) ==
    [op |-> op, config_commands |-> cmds, exit_system_view |-> exitAfter,
     status |-> "running", hasValue |-> FALSE, value |-> <<>>,
     chk |-> FALSE, error |-> "", message |-> ""]

\* the top frame goes on as f
Goto(f, evs) ==
    /\ stack' = Append(Below, f)
    /\ trace' = trace \o evs
    /\ UNCHANGED result

\* the top frame goes on as f and awaits callee
Await(f, callee, evs) ==
    /\ stack' = Append(Below, f) \o <<callee>>
    /\ trace' = trace \o evs \o <<<<"call", <<callee.fn>>>>>>
    /\ UNCHANGED result

\* the top frame returns the boolean b
ReturnBool(b, evs) ==
    /\ trace' = trace \o evs \o <<<<"ret", <<Top.fn, BoolStr(b)>>>>>>
    /\ IF Len(stack) = 1
       THEN /\ stack' = <<>>
            /\ result' = [result EXCEPT !.status = "returned", !.hasValue = TRUE,
                                        !.chk = b]
       ELSE /\ stack' = Append(SubSeq(stack, 1, Len(stack) - 2),
                               [stack[Len(stack) - 1] EXCEPT !.chk = b])
            /\ UNCHANGED result

\* the top frame returns the text v
ReturnText(v, evs) ==
    /\ trace' = trace \o evs \o <<<<"ret", <<Top.fn>>>>>>
    /\ IF Len(stack) = 1
       THEN /\ stack' = <<>>
            /\ result' = [result EXCEPT !.status = "returned", !.hasValue = TRUE,
                                        !.value = v]
       ELSE /\ stack' = Append(SubSeq(stack, 1, Len(stack) - 2),
                               [stack[Len(stack) - 1] EXCEPT !.ret = v])
            /\ UNCHANGED result

\* the top frame raises: no frame catches, the caller of the call gets the exception
Raise(error, message, evs) ==
    /\ trace' = trace \o evs \o <<<<"raise", <<Top.fn, error>>>>>>
    /\ stack' = <<>>
    /\ result' = [result EXCEPT !.status = "raised", !.error = error,
                                !.message = message]

\* ------------------------------------------------------------ the caller

Summary == [op |-> result.op, status |-> result.status]

\* a task with no call running
NoContext == [stack |-> <<>>, trace |-> <<>>, lastRead |-> <<>>,
              result |-> NoResult("", NoneArg, FALSE)]

\* the caller starts coroutine fn when its previous call is over
Invoke(fn, cmds, exitAfter) ==
    /\ stack = <<>>
    /\ stack' = <<Frame(fn, cmds, exitAfter)>>
    /\ trace' = <<<<"call", <<fn>>>>>>
    /\ hist' = IF result.op = "" \/ ~healthy THEN hist
               ELSE IF Len(hist) < 2 THEN Append(hist, Summary)
               ELSE Append(Tail(hist), Summary)
    /\ result' = NoResult(fn, cmds, exitAfter)
    /\ stale' = IF result.op = "" THEN stale ELSE <<>>
    /\ lastRead' = <<>>
    /\ UNCHANGED <<devMode, healthy, session, wire, link, tasks>>

\* the calls the caller knows the outcome of, oldest first
Known == hist \o stale

\* between two calls somebody else (an operator, another program) changes the mode
other_actor ==
    /\ stack = <<>>
    /\ healthy
    /\ result.op # ""
    /\ devMode' = IF devMode = "UserView" THEN "SystemView" ELSE "UserView"
    /\ stale' = <<Summary>>
    /\ hist' = <<>>
    /\ result' = NoResult("", NoneArg, FALSE)
    /\ trace' = <<>>
    /\ lastRead' = <<>>
    /\ UNCHANGED <<healthy, session, wire, link, stack, tasks>>

\* the event loop runs the other task: the running one is suspended in a read, or
\* has no call running; tasks that are serialized switch between calls only
Switch_unlocked ==
    /\ IF stack = <<>> THEN TRUE ELSE Top.pc = "read"
    /\ stack' = parked.stack
    /\ trace' = parked.trace
    /\ lastRead' = parked.lastRead
    /\ result' = parked.result
    /\ parked' = [stack |-> stack, trace |-> trace, lastRead |-> lastRead,
                  result |-> result]
    /\ me' = 3 - me
    /\ UNCHANGED <<devMode, healthy, session, wire, link, hist, stale, serialized>>

Switch ==
    /\ IF stack = <<>> THEN TRUE ELSE ~serialized /\ Top.pc = "read"
    /\ stack' = parked.stack
    /\ trace' = parked.trace
    /\ lastRead' = parked.lastRead
    /\ result' = parked.result
    /\ parked' = [stack |-> stack, trace |-> trace, lastRead |-> lastRead,
                  result |-> result]
    /\ me' = 3 - me
    /\ UNCHANGED <<devMode, healthy, session, wire, link, hist, stale, serialized>>

Call_check_system_view == Invoke("_check_system_view", NoneArg, FALSE)

Call_system_view == Invoke("_system_view", NoneArg, FALSE)

Call_exit_system_view == Invoke("_exit_system_view", NoneArg, FALSE)

Call_send_config_set ==
    \E cmds \in {NoneArg} \cup {ListArg(l) : l \in SeqsUpTo(ConfigCommands, MaxCmds)},
       exitAfter \in BOOLEAN :
        Invoke("send_config_set", cmds, exitAfter)

\* ------------------------------------------------- _check_system_view

\* line 91: the blank line is written
check_system_view_write ==
    /\ At("_check_system_view", "start")
    /\ stdin_write(normalize_cmd(<<"\n">>))
    /\ Goto([Top EXCEPT !.pc = "read"], <<<<"W", normalize_cmd(<<"\n">>)>>>>)
    /\ UNCHANGED <<healthy, session, lastRead, hist, stale, tasks>>

\* (mutation) the check string is searched in what was read before as well
check_system_view_read_buffered ==
    /\ At("_check_system_view", "read")
    /\ read_until_prompt
    /\ IF Head(wire) = TimeoutUnit
       THEN Raise("TransportError", "timeout", <<<<"R", TimeoutUnit>>>>)
       ELSE ReturnBool(system_view_check \in Range(lastRead \o Head(wire)), <<<<"R", <<>>>>>>)
    /\ UNCHANGED <<devMode, healthy, session, hist, stale, tasks>>

\* (mutation) a read that times out counts as "not in system view"
check_system_view_read_swallow ==
    /\ At("_check_system_view", "read")
    /\ read_until_prompt
    /\ IF Head(wire) = TimeoutUnit
       THEN ReturnBool(FALSE, <<<<"R", TimeoutUnit>>>>)
       ELSE ReturnBool(system_view_check \in Range(Head(wire)), <<<<"R", <<>>>>>>)
    /\ UNCHANGED <<devMode, healthy, session, hist, stale, tasks>>

\* lines 92-93: the prompt unit is read and searched for the check string
check_system_view_read ==
    /\ At("_check_system_view", "read")
    /\ read_until_prompt
    /\ IF Head(wire) = TimeoutUnit
       THEN Raise("TransportError", "timeout", <<<<"R", TimeoutUnit>>>>)
       ELSE ReturnBool(system_view_check \in Range(Head(wire)), <<<<"R", <<>>>>>>)
    /\ UNCHANGED <<devMode, healthy, session, hist, stale, tasks>>

\* ---------------------------------------------------------- _system_view

\* (mutation) the outcome of the call before is trusted: no probe after an enter
system_view_start_cached ==
    /\ At("_system_view", "start")
    /\ IF Known # <<>> /\ Known[Len(Known)] = [op |-> "_system_view", status |-> "returned"]
       THEN ReturnText(<<>>, <<>>)
       ELSE Await([Top EXCEPT !.pc = "check1", !.output = <<>>],
                  Frame("_check_system_view", NoneArg, FALSE), <<>>)
    /\ UNCHANGED <<devMode, healthy, session, wire, link, lastRead, hist, stale, tasks>>

\* lines 98-100: output = "", the first probe is awaited
system_view_start ==
    /\ At("_system_view", "start")
    /\ Await([Top EXCEPT !.pc = "check1", !.output = <<>>],
             Frame("_check_system_view", NoneArg, FALSE), <<>>)
    /\ UNCHANGED <<devMode, healthy, session, wire, link, lastRead, hist, stale, tasks>>

\* (mutation) the enter command is written whatever the first probe said
system_view_check1_unconditional ==
    /\ At("_system_view", "check1")
    /\ stdin_write(normalize_cmd(system_view_enter))
    /\ Goto([Top EXCEPT !.pc = "read"], <<<<"W", normalize_cmd(system_view_enter)>>>>)
    /\ UNCHANGED <<healthy, session, lastRead, hist, stale, tasks>>

\* lines 100-101, 105: in user view the enter command is written, else output is returned
system_view_check1 ==
    /\ At("_system_view", "check1")
    /\ IF ~Top.chk
       THEN /\ stdin_write(normalize_cmd(system_view_enter))
            /\ Goto([Top EXCEPT !.pc = "read"],
                    <<<<"W", normalize_cmd(system_view_enter)>>>>)
       ELSE /\ ReturnText(Top.output, <<>>)
            /\ UNCHANGED <<devMode, wire, link>>
    /\ UNCHANGED <<healthy, session, lastRead, hist, stale, tasks>>

\* (mutation) the answer to the enter command is left unread
system_view_read_skipped ==
    /\ At("_system_view", "read")
    /\ Await([Top EXCEPT !.pc = "check2"], Frame("_check_system_view", NoneArg, FALSE), <<>>)
    /\ UNCHANGED <<devMode, healthy, session, wire, link, lastRead, hist, stale, tasks>>

\* (mutation) a failed verification is answered by a second attempt
system_view_check2_retry ==
    /\ At("_system_view", "check2")
    /\ IF ~Top.chk
       THEN /\ stdin_write(normalize_cmd(system_view_enter))
            /\ Goto([Top EXCEPT !.pc = "read"],
                    <<<<"W", normalize_cmd(system_view_enter)>>>>)
       ELSE /\ ReturnText(Top.output, <<>>)
            /\ UNCHANGED <<devMode, wire, link>>
    /\ UNCHANGED <<healthy, session, lastRead, hist, stale, tasks>>

\* lines 102-103: the answer is added to output, the second probe is awaited
system_view_read ==
    /\ At("_system_view", "read")
    /\ read_until_prompt
    /\ IF Head(wire) = TimeoutUnit
       THEN Raise("TransportError", "timeout", <<<<"R", TimeoutUnit>>>>)
       ELSE Await([Top EXCEPT !.pc = "check2", !.output = Top.output \o Head(wire)],
                  Frame("_check_system_view", NoneArg, FALSE), <<<<"R", Head(wire)>>>>)
    /\ UNCHANGED <<devMode, healthy, session, hist, stale, tasks>>

\* (mutation) the failure hands the output read so far to the caller
system_view_check2_with_output ==
    /\ At("_system_view", "check2")
    /\ IF ~Top.chk
       THEN /\ trace' = Append(trace, <<"raise", <<Top.fn, "ValueError">>>>)
            /\ stack' = <<>>
            /\ result' = [result EXCEPT !.status = "raised", !.error = "ValueError",
                                        !.message = "Failed to enter to system view",
                                        !.hasValue = TRUE, !.value = Top.output]
       ELSE ReturnText(Top.output, <<>>)
    /\ UNCHANGED <<devMode, healthy, session, wire, link, lastRead, hist, stale, tasks>>

\* (mutation) the second probe is made but its answer is not acted on
system_view_check2_unverified ==
    /\ At("_system_view", "check2")
    /\ ReturnText(Top.output, <<>>)
    /\ UNCHANGED <<devMode, healthy, session, wire, link, lastRead, hist, stale, tasks>>

\* lines 103-105: still in user view raises, else output is returned
system_view_check2 ==
    /\ At("_system_view", "check2")
    /\ IF ~Top.chk
       THEN Raise("ValueError", "Failed to enter to system view", <<>>)
       ELSE ReturnText(Top.output, <<>>)
    /\ UNCHANGED <<devMode, healthy, session, wire, link, lastRead, hist, stale, tasks>>

\* ----------------------------------------------------- _exit_system_view

\* lines 110-112: output = "", the first probe is awaited
exit_system_view_start ==
    /\ At("_exit_system_view", "start")
    /\ Await([Top EXCEPT !.pc = "check1", !.output = <<>>],
             Frame("_check_system_view", NoneArg, FALSE), <<>>)
    /\ UNCHANGED <<devMode, healthy, session, wire, link, lastRead, hist, stale, tasks>>

\* (mutation) the test of the first probe is negated
exit_system_view_check1_inverted ==
    /\ At("_exit_system_view", "check1")
    /\ IF ~Top.chk
       THEN /\ stdin_write(normalize_cmd(system_view_exit))
            /\ Goto([Top EXCEPT !.pc = "read"],
                    <<<<"W", normalize_cmd(system_view_exit)>>>>)
       ELSE /\ ReturnText(Top.output, <<>>)
            /\ UNCHANGED <<devMode, wire, link>>
    /\ UNCHANGED <<healthy, session, lastRead, hist, stale, tasks>>

\* lines 112-113, 117: in system view the exit command is written, else output is returned
exit_system_view_check1 ==
    /\ At("_exit_system_view", "check1")
    /\ IF Top.chk
       THEN /\ stdin_write(normalize_cmd(system_view_exit))
            /\ Goto([Top EXCEPT !.pc = "read"],
                    <<<<"W", normalize_cmd(system_view_exit)>>>>)
       ELSE /\ ReturnText(Top.output, <<>>)
            /\ UNCHANGED <<devMode, wire, link>>
    /\ UNCHANGED <<healthy, session, lastRead, hist, stale, tasks>>

\* lines 114-115: the answer is added to output, the second probe is awaited
exit_system_view_read ==
    /\ At("_exit_system_view", "read")
    /\ read_until_prompt
    /\ IF Head(wire) = TimeoutUnit
       THEN Raise("TransportError", "timeout", <<<<"R", TimeoutUnit>>>>)
       ELSE Await([Top EXCEPT !.pc = "check2", !.output = Top.output \o Head(wire)],
                  Frame("_check_system_view", NoneArg, FALSE), <<<<"R", Head(wire)>>>>)
    /\ UNCHANGED <<devMode, healthy, session, hist, stale, tasks>>

\* (mutation) the second probe is made but its answer is not acted on
exit_system_view_check2_unverified ==
    /\ At("_exit_system_view", "check2")
    /\ ReturnText(Top.output, <<>>)
    /\ UNCHANGED <<devMode, healthy, session, wire, link, lastRead, hist, stale, tasks>>

\* lines 115-117: still in system view raises, else output is returned
exit_system_view_check2 ==
    /\ At("_exit_system_view", "check2")
    /\ IF Top.chk
       THEN Raise("ValueError", "Failed to exit from system view", <<>>)
       ELSE ReturnText(Top.output, <<>>)
    /\ UNCHANGED <<devMode, healthy, session, wire, link, lastRead, hist, stale, tasks>>

\* ------------------------------------- BaseDevice.send_config_set (super)

\* the next command is written, or the collected output is returned
base_send_config_set_write ==
    /\ At("super.send_config_set", "start")
    /\ IF Top.config_commands.list = <<>>
       THEN /\ ReturnText(Top.output, <<>>)
            /\ UNCHANGED <<devMode, wire, link>>
       ELSE /\ stdin_write(normalize_cmd(Head(Top.config_commands.list)))
            /\ Goto([Top EXCEPT !.pc = "read"],
                    <<<<"W", normalize_cmd(Head(Top.config_commands.list))>>>>)
    /\ UNCHANGED <<healthy, session, lastRead, hist, stale, tasks>>

\* the answer to the command is added to the output
base_send_config_set_read ==
    /\ At("super.send_config_set", "read")
    /\ read_until_prompt
    /\ IF Head(wire) = TimeoutUnit
       THEN Raise("TransportError", "timeout", <<<<"R", TimeoutUnit>>>>)
       ELSE Goto([Top EXCEPT !.pc = "start", !.output = Top.output \o Head(wire),
                             !.config_commands.list = Tail(Top.config_commands.list)],
                 <<<<"R", Head(wire)>>>>)
    /\ UNCHANGED <<devMode, healthy, session, hist, stale, tasks>>

\* -------------------------------------------------------- send_config_set

\* (mutation) no test for None: every call enters system view
send_config_set_start_unguarded ==
    /\ At("send_config_set", "start")
    /\ Await([Top EXCEPT !.pc = "entered"], Frame("_system_view", NoneArg, FALSE), <<>>)
    /\ UNCHANGED <<devMode, healthy, session, wire, link, lastRead, hist, stale, tasks>>

\* lines 129-133: None returns '' at once, anything else awaits _system_view
send_config_set_start ==
    /\ At("send_config_set", "start")
    /\ IF Top.config_commands.isNone
       THEN ReturnText(<<>>, <<>>)
       ELSE Await([Top EXCEPT !.pc = "entered"], Frame("_system_view", NoneArg, FALSE), <<>>)
    /\ UNCHANGED <<devMode, healthy, session, wire, link, lastRead, hist, stale, tasks>>

\* lines 133-134: output is the enter output, the commands go to the base class
send_config_set_entered ==
    /\ At("send_config_set", "entered")
    /\ Await([Top EXCEPT !.pc = "delivered", !.output = Top.ret],
             Frame("super.send_config_set", Top.config_commands, FALSE), <<>>)
    /\ UNCHANGED <<devMode, healthy, session, wire, link, lastRead, hist, stale, tasks>>

\* (mutation) exit_system_view is ignored: the call never leaves system view
send_config_set_delivered_noexit ==
    /\ At("send_config_set", "delivered")
    /\ ReturnText(normalize_linefeeds(Top.output \o Top.ret), <<>>)
    /\ UNCHANGED <<devMode, healthy, session, wire, link, lastRead, hist, stale, tasks>>

\* (mutation) the delivery output is put before the enter output
send_config_set_delivered_swapped ==
    /\ At("send_config_set", "delivered")
    /\ IF Top.exit_system_view
       THEN Await([Top EXCEPT !.pc = "exited", !.output = Top.ret \o Top.output],
                  Frame("_exit_system_view", NoneArg, FALSE), <<>>)
       ELSE ReturnText(normalize_linefeeds(Top.ret \o Top.output), <<>>)
    /\ UNCHANGED <<devMode, healthy, session, wire, link, lastRead, hist, stale, tasks>>

\* lines 134-137, 139-141: the delivery output is added; exit is awaited if asked for
send_config_set_delivered ==
    /\ At("send_config_set", "delivered")
    /\ IF Top.exit_system_view
       THEN Await([Top EXCEPT !.pc = "exited", !.output = Top.output \o Top.ret],
                  Frame("_exit_system_view", NoneArg, FALSE), <<>>)
       ELSE ReturnText(normalize_linefeeds(Top.output \o Top.ret), <<>>)
    /\ UNCHANGED <<devMode, healthy, session, wire, link, lastRead, hist, stale, tasks>>

\* lines 137-141: the exit output is added, the whole is normalized and returned
send_config_set_exited ==
    /\ At("send_config_set", "exited")
    /\ ReturnText(normalize_linefeeds(Top.output \o Top.ret), <<>>)
    /\ UNCHANGED <<devMode, healthy, session, wire, link, lastRead, hist, stale, tasks>>

\* --------------------------------------------------------- session setup

\* the characters hostnames are written with: a word character, a hyphen, a dot
HostChars == {"a", "-", "."}

\* n word characters
Pad(n) == [i \in 1..n |-> "a"]

\* hostnames: short ones, and ones about as long as what the pattern keeps, or longer
Hostnames ==
    {Pad(n) \o t : n \in {0, TruncLen - 1}, t \in SeqsUpTo(HostChars, MaxTail)}
    \cup {<<"s", "w", "i", "t", "c", "h", "1">>}

\* the prompts _find_prompt may give: opener, hostname, closer of one mode
RawPrompts ==
    {<<ComwareDelimiters.left[i]>> \o h \o <<ComwareDelimiters.right[i]>> :
        i \in 1..Len(ComwareDelimiters.left), h \in Hostnames}

\* the delimiter lists a class may carry: Comware's, and a pair of unequal lengths
DelimiterSets == {ComwareDelimiters, [left |-> <<"<", "[">>, right |-> <<">">>]}

\* the texts the pattern is tried on
Candidates ==
    {<<a>> \o h \o <<b>> : a \in {"<", "[", "|"}, b \in {">", "]", "|"}, h \in Hostnames}

NoTry == [text |-> <<>>, search |-> FALSE, fullmatch |-> FALSE, done |-> FALSE]

\* (mutation) the base prompt is stored cut to the characters the pattern keeps
set_base_prompt_truncating ==
    /\ setup.status = "new"
    /\ base_prompt' = SubSeq(strip_ends(found_prompt), 1,
                             IF Len(strip_ends(found_prompt)) < TruncLen
                             THEN Len(strip_ends(found_prompt)) ELSE TruncLen)
    /\ base_pattern' = build_pattern(strip_ends(found_prompt), delimiters)
    /\ setup' = [status |-> "returned", value |-> base_prompt', error |-> ""]
    /\ UNCHANGED <<devMode, healthy, wire, link, stack, trace, lastRead, result, hist, stale, tasks,
                   delimiters, found_prompt, tried>>

\* (mutation) delimiter lists of unequal length are refused
set_base_prompt_validating ==
    /\ setup.status = "new"
    /\ IF Len(delimiters.left) # Len(delimiters.right)
       THEN /\ setup' = [status |-> "raised", value |-> <<>>, error |-> "ConfigurationError"]
            /\ UNCHANGED <<base_prompt, base_pattern>>
       ELSE /\ base_prompt' = strip_ends(found_prompt)
            /\ base_pattern' = build_pattern(strip_ends(found_prompt), delimiters)
            /\ setup' = [status |-> "returned", value |-> strip_ends(found_prompt),
                         error |-> ""]
    /\ UNCHANGED <<devMode, healthy, wire, link, stack, trace, lastRead, result, hist, stale, tasks,
                   delimiters, found_prompt, tried>>

\* lines 72-85: base prompt and base pattern are set from the prompt found
set_base_prompt ==
    /\ setup.status = "new"
    /\ base_prompt' = strip_ends(found_prompt)
    /\ base_pattern' = build_pattern(strip_ends(found_prompt), delimiters)
    /\ setup' = [status |-> "returned", value |-> strip_ends(found_prompt), error |-> ""]
    /\ UNCHANGED <<devMode, healthy, wire, link, stack, trace, lastRead, result, hist, stale, tasks,
                   delimiters, found_prompt, tried>>

\* the base pattern is tried on one text, as _read_until_prompt does with its buffer
pattern_search ==
    /\ setup.status = "returned"
    /\ ~tried.done
    /\ \E text \in Candidates :
           tried' = [text |-> text, search |-> search(base_pattern, text),
                     fullmatch |-> fullmatch(base_pattern, text), done |-> TRUE]
    /\ UNCHANGED <<devMode, healthy, wire, link, stack, trace, lastRead, result, hist, stale, tasks,
                   delimiters, found_prompt, base_prompt, base_pattern, setup>>

\* ---------------------------------------------------------------- system

Init ==
    /\ devMode \in Modes
    /\ healthy \in BOOLEAN
    /\ wire = <<>>
    /\ stack = <<>>
    /\ trace = <<>>
    /\ lastRead = <<>>
    /\ result = NoResult("", NoneArg, FALSE)
    /\ hist = <<>>
    /\ delimiters = ComwareDelimiters
    /\ found_prompt = <<"<", "h", ">">>
    /\ base_prompt = <<"h">>
    /\ base_pattern = build_pattern(<<"h">>, ComwareDelimiters)
    /\ setup = [status |-> "returned", value |-> <<"h">>, error |-> ""]
    /\ tried = NoTry
    /\ stale = <<>>
    /\ me = 1
    /\ parked = NoContext
    /\ serialized = TRUE
    /\ owner = <<>>
    /\ misread = FALSE

Next ==
    \/ Call_check_system_view
    \/ check_system_view_write
    \/ check_system_view_read
    \/ Call_system_view
    \/ system_view_start
    \/ system_view_check1
    \/ system_view_read
    \/ system_view_check2
    \/ Call_exit_system_view
    \/ exit_system_view_start
    \/ exit_system_view_check1
    \/ exit_system_view_read
    \/ exit_system_view_check2
    \/ Call_send_config_set
    \/ send_config_set_start
    \/ send_config_set_entered
    \/ base_send_config_set_write
    \/ base_send_config_set_read
    \/ send_config_set_delivered
    \/ send_config_set_exited
    \/ other_actor

Spec == Init /\ [][Next]_vars

\* two tasks use one session on a healthy device, serialized or not
InitConc ==
    /\ devMode \in Modes
    /\ healthy = TRUE
    /\ wire = <<>>
    /\ stack = <<>>
    /\ trace = <<>>
    /\ lastRead = <<>>
    /\ result = NoResult("", NoneArg, FALSE)
    /\ hist = <<>>
    /\ delimiters = ComwareDelimiters
    /\ found_prompt = <<"<", "h", ">">>
    /\ base_prompt = <<"h">>
    /\ base_pattern = build_pattern(<<"h">>, ComwareDelimiters)
    /\ setup = [status |-> "returned", value |-> <<"h">>, error |-> ""]
    /\ tried = NoTry
    /\ stale = <<>>
    /\ me = 1
    /\ parked = NoContext
    /\ serialized \in BOOLEAN
    /\ owner = <<>>
    /\ misread = FALSE

NextConc ==
    \/ Call_system_view
    \/ system_view_start
    \/ system_view_check1
    \/ system_view_read
    \/ system_view_check2
    \/ Call_exit_system_view
    \/ exit_system_view_start
    \/ exit_system_view_check1
    \/ exit_system_view_read
    \/ exit_system_view_check2
    \/ check_system_view_write
    \/ check_system_view_read
    \/ Switch

SpecConc == InitConc /\ [][NextConc]_vars

\* a session right after connect: the prompt is found, nothing is set up yet
InitSetup ==
    /\ devMode = "UserView"
    /\ healthy = TRUE
    /\ wire = <<>>
    /\ stack = <<>>
    /\ trace = <<>>
    /\ lastRead = <<>>
    /\ result = NoResult("", NoneArg, FALSE)
    /\ hist = <<>>
    /\ delimiters \in DelimiterSets
    /\ found_prompt \in RawPrompts
    /\ base_prompt = <<>>
    /\ base_pattern = <<>>
    /\ setup = [status |-> "new", value |-> <<>>, error |-> ""]
    /\ tried = NoTry
    /\ stale = <<>>
    /\ me = 1
    /\ parked = NoContext
    /\ serialized = TRUE
    /\ owner = <<>>
    /\ misread = FALSE

NextSetup ==
    \/ set_base_prompt
    \/ pattern_search

SpecSetup == InitSetup /\ [][NextSetup]_vars

\* ------------------------------------------------------ reading the trace

Done(op) == result.op = op /\ result.status # "running"

Events(e) == {i \in 1..Len(trace) : trace[i] = e}

Kind(k) == {i \in 1..Len(trace) : trace[i][1] = k}

WritesOf(cmd) == Events(<<"W", normalize_cmd(cmd)>>)

CallsOf(fn) == Events(<<"call", <<fn>>>>)

\* the write of the probe: the normalized blank line
BlankLineWrite == <<"W", normalize_cmd(<<"\n">>)>>

ProbeRet(b) == <<"ret", <<"_check_system_view", BoolStr(b)>>>>

ProbeRets == Events(ProbeRet(TRUE)) \cup Events(ProbeRet(FALSE))

\* the latest probe of the call reported b
LastProbeIs(b) ==
    /\ ProbeRets # {}
    /\ \E i \in ProbeRets : trace[i] = ProbeRet(b) /\ \A j \in ProbeRets : j <= i

\* the probe made after the write of cmd (the first one to return after it) reported b
ProbeAfterWrite(cmd, b) ==
    \E i \in WritesOf(cmd) : \E j \in Events(ProbeRet(b)) :
        j > i /\ \A k \in ProbeRets : k > i => k >= j

RaisedValueError(message) ==
    /\ result.status = "raised"
    /\ result.error = "ValueError"
    /\ result.message = message

\* ------------------------------------------------------------------ claims

\* C1: a _system_view call that returns normally ended on a probe reporting
\* system view; when the probe made after the write of the enter command still
\* reports user view, the call raises "Failed to enter to system view".
C1_EnterVerified ==
    Done("_system_view") =>
        /\ result.status = "returned" => LastProbeIs(TRUE)
        /\ ProbeAfterWrite(system_view_enter, FALSE) =>
               RaisedValueError("Failed to enter to system view")

C1_Witness ==
    /\ Done("_system_view")
    /\ ProbeAfterWrite(system_view_enter, FALSE)
    /\ result.status = "raised"

\* C2: _exit_system_view whose first probe reports user view writes no exit command
\* and returns empty output; otherwise it writes the exit command once, straight
\* after that probe, and raises "Failed to exit from system view" when the probe
\* after it still reports system view; a normal return ended on a probe reporting
\* user view.
C2_ExitVerified ==
    Done("_exit_system_view") =>
        /\ trace[5] = ProbeRet(FALSE) =>
               /\ WritesOf(system_view_exit) = {}
               /\ Cardinality(Kind("W")) = 1
               /\ result.status = "returned" /\ result.value = <<>>
        /\ trace[5] = ProbeRet(TRUE) =>
               /\ WritesOf(system_view_exit) = {6}
               /\ Len(trace) > 7 => trace[7][1] = "R"
               /\ Len(trace) > 8 => trace[8] = <<"call", <<"_check_system_view">>>>
        /\ ProbeAfterWrite(system_view_exit, TRUE) =>
               RaisedValueError("Failed to exit from system view")
        /\ result.status = "returned" => LastProbeIs(FALSE)

C2_Witness ==
    /\ Done("_exit_system_view")
    /\ ProbeAfterWrite(system_view_exit, TRUE)
    /\ result.status = "raised"

\* C3: send_config_set with a non-empty list, when the probe after the enter command
\* still reports user view, raises "Failed to enter to system view"; the commands
\* never reach the base class's send_config_set, none is written, nor the exit command.
C3_EnterFailureStopsDelivery ==
    ( /\ Done("send_config_set")
      /\ ~result.config_commands.isNone
      /\ result.config_commands.list # <<>>
      /\ ProbeAfterWrite(system_view_enter, FALSE) ) =>
        /\ RaisedValueError("Failed to enter to system view")
        /\ CallsOf("super.send_config_set") = {}
        /\ \A c \in ConfigCommands : WritesOf(c) = {}
        /\ WritesOf(system_view_exit) = {}

C3_Witness ==
    /\ Done("send_config_set")
    /\ result.config_commands.list # <<>>
    /\ ProbeAfterWrite(system_view_enter, FALSE)
    /\ result.status = "raised"

\* the call before this one was op and ended with status
PrevIs(op, status) == hist # <<>> /\ hist[Len(hist)] = [op |-> op, status |-> status]

\* C4 as claimed: send_config_set with None or with an empty list returns '' at once,
\* writes and reads nothing and does not start _system_view.
C4_EmptyOrAbsentIsNoOp ==
    ( /\ Done("send_config_set")
      /\ result.config_commands.isNone \/ result.config_commands.list = <<>> ) =>
        /\ result.status = "returned" /\ result.value = <<>>
        /\ Kind("W") = {} /\ Kind("R") = {}
        /\ CallsOf("_system_view") = {}

\* C4, amended: send_config_set with None returns '' at once, writes and reads
\* nothing and does not start _system_view, for either exit_system_view; an empty
\* list is not None: the call starts _system_view, whose probe is written.
C4_AbsentIsNoOp ==
    Done("send_config_set") =>
        /\ result.config_commands.isNone =>
               /\ result.status = "returned" /\ result.value = <<>>
               /\ trace = << <<"call", <<"send_config_set">>>>,
                             <<"ret", <<"send_config_set">>>> >>
        /\ ~result.config_commands.isNone /\ result.config_commands.list = <<>> =>
               /\ CallsOf("_system_view") = {2}
               /\ trace[4] = BlankLineWrite

C4_Witness ==
    /\ Done("send_config_set")
    /\ result.config_commands.isNone
    /\ result.exit_system_view
    /\ result.status = "returned"

\* C5 as claimed: on a healthy device a _system_view call right after a _system_view
\* call that returned writes nothing and reads nothing, and the device stays in
\* system view.
C5_SecondEnterSilent ==
    (healthy /\ Done("_system_view") /\ PrevIs("_system_view", "returned")) =>
        /\ Kind("W") = {} /\ Kind("R") = {}
        /\ devMode = "SystemView"

\* C5, amended: on a healthy device a _system_view call right after a _system_view
\* call that returned writes no enter command: its only traffic is the probe (one
\* blank line written, one read), it returns empty output and the device stays in
\* system view.
C5_SecondEnterOnlyProbes ==
    (healthy /\ Done("_system_view") /\ PrevIs("_system_view", "returned")) =>
        /\ trace = << <<"call", <<"_system_view">>>>,
                      <<"call", <<"_check_system_view">>>>,
                      BlankLineWrite,
                      <<"R", <<>>>>,
                      ProbeRet(TRUE),
                      <<"ret", <<"_system_view">>>> >>
        /\ result.status = "returned" /\ result.value = <<>>
        /\ devMode = "SystemView"

C5_Witness ==
    /\ healthy
    /\ Done("_system_view")
    /\ PrevIs("_system_view", "returned")

\* C6: on a healthy device, from either mode, _system_view returns normally, an
\* _exit_system_view right after it returns normally and leaves the device in user
\* view, and a probe right after the two reports user view.
C6_RoundTrip ==
    healthy =>
        /\ Done("_system_view") => result.status = "returned" /\ devMode = "SystemView"
        /\ (Done("_exit_system_view") /\ PrevIs("_system_view", "returned")) =>
               result.status = "returned" /\ devMode = "UserView"
        /\ ( /\ Done("_check_system_view")
             /\ hist = << [op |-> "_system_view", status |-> "returned"],
                          [op |-> "_exit_system_view", status |-> "returned"] >> ) =>
               result.status = "returned" /\ result.chk = FALSE

C6_Witness ==
    /\ healthy
    /\ Done("_check_system_view")
    /\ hist = << [op |-> "_system_view", status |-> "returned"],
                 [op |-> "_exit_system_view", status |-> "returned"] >>

\* C7: in send_config_set with exit_system_view true, _exit_system_view is started
\* when, and only when, the delivery has returned; when its verification probe still
\* reports system view the call raises "Failed to exit from system view", every
\* command of the list has been written before, and the raise is the last thing the
\* call does: nothing is written after it.
C7_ExitFailureNoRollback ==
    ( /\ Done("send_config_set")
      /\ ~result.config_commands.isNone
      /\ result.exit_system_view ) =>
        /\ \A i \in Events(<<"ret", <<"super.send_config_set">>>>) :
               trace[i + 1] = <<"call", <<"_exit_system_view">>>>
        /\ \A i \in CallsOf("_exit_system_view") :
               trace[i - 1] = <<"ret", <<"super.send_config_set">>>>
        /\ ProbeAfterWrite(system_view_exit, TRUE) =>
               /\ RaisedValueError("Failed to exit from system view")
               /\ trace[Len(trace)] = <<"raise", <<"_exit_system_view", "ValueError">>>>
               /\ \A k \in 1..Len(result.config_commands.list) :
                      \E i \in WritesOf(result.config_commands.list[k]) :
                          \A j \in WritesOf(system_view_exit) : i < j
               /\ stack = <<>> /\ wire = <<>>

C7_Witness ==
    /\ Done("send_config_set")
    /\ result.exit_system_view
    /\ Len(result.config_commands.list) > 1
    /\ ProbeAfterWrite(system_view_exit, TRUE)
    /\ result.status = "raised"

\* C8 as claimed: a call that fails its verification still hands the text read so
\* far to its caller.
C8_OutputSurvivesFailure ==
    (result.status = "raised" /\ result.error = "ValueError") => result.hasValue

\* C8, amended: a call that fails its verification raises ValueError with a fixed
\* message and hands no text to its caller: what was read so far is dropped;
\* accumulated text is handed over only by a normal return.
C8_FailureDiscardsOutput ==
    /\ (result.status = "raised" /\ result.error = "ValueError") =>
           /\ ~result.hasValue /\ result.value = <<>>
           /\ result.message \in {"Failed to enter to system view",
                                  "Failed to exit from system view"}
           /\ Kind("R") # {}
    /\ ( /\ result.op \in {"_system_view", "_exit_system_view", "send_config_set"}
         /\ result.status = "returned"
         /\ WritesOf(system_view_enter) \cup WritesOf(system_view_exit) # {} ) =>
           result.hasValue /\ result.value # <<>>

C8_Witness ==
    /\ Done("send_config_set")
    /\ result.status = "raised" /\ result.error = "ValueError"
    /\ CallsOf("super.send_config_set") # {}

\* C9: every _check_system_view writes one normalized blank line, then reads once,
\* and returns whether "]" is in the text of that read and of no other.
C9_ProbeIsOneRoundTrip ==
    /\ \A i \in ProbeRets :
           /\ i > 3
           /\ trace[i - 3] = <<"call", <<"_check_system_view">>>>
           /\ trace[i - 2] = BlankLineWrite
           /\ trace[i - 1] = <<"R", <<>>>>
    /\ \A i \in CallsOf("_check_system_view") :
           /\ Len(trace) > i => trace[i + 1] = BlankLineWrite
           /\ Len(trace) > i + 1 => trace[i + 2][1] = "R"
           /\ Len(trace) > i + 2 => trace[i + 3][1] \in {"ret", "raise"}
    /\ \A b \in BOOLEAN :
           (trace # <<>> /\ trace[Len(trace)] = ProbeRet(b)) =>
               (b <=> "]" \in Range(lastRead))

C9_Witness ==
    /\ trace # <<>>
    /\ trace[Len(trace)] = ProbeRet(FALSE)
    /\ Cardinality(Events(ProbeRet(TRUE))) = 1

\* C10: a read that times out ends the call there: the TransportError reaches the
\* caller as it is and the call writes and reads nothing more.
C10_ReadFailureStops ==
    \A i \in Events(<<"R", TimeoutUnit>>) :
        /\ i + 1 = Len(trace)
        /\ trace[i + 1][1] = "raise"
        /\ trace[i + 1][2][2] = "TransportError"
        /\ stack = <<>>
        /\ result.status = "raised" /\ result.error = "TransportError"

C10_Witness ==
    /\ Done("send_config_set")
    /\ Events(<<"R", TimeoutUnit>>) # {}
    /\ CallsOf("_exit_system_view") # {}

\* ----------------------------------------------------- claims on the pattern

\* the text is written with word characters and hyphens only
WordOrHyphen(text) == \A i \in 1..Len(text) : text[i] \in WordChars \cup {"-"}

\* the pattern was tried on the text
TriedOn(text) == tried.done /\ tried.text = text

\* C11: for every raw prompt opener + hostname + closer, whatever the length and the
\* characters of the hostname, the pattern built from it is found in the raw prompt.
C11_PatternMatchesRawPrompt ==
    (delimiters = ComwareDelimiters /\ TriedOn(found_prompt)) => tried.search

\* C12: from raw prompt "<switch1>" the base prompt is "switch1" and the pattern
\* matches "<switch1>" and "[switch1]"; for every hostname of word characters and
\* hyphens the pattern matches opener i + hostname + closer i, for every i.
C12_PatternMatchesBothModes ==
    (delimiters = ComwareDelimiters /\ setup.status = "returned") =>
        /\ found_prompt = <<"<", "s", "w", "i", "t", "c", "h", "1", ">">> =>
               /\ base_prompt = <<"s", "w", "i", "t", "c", "h", "1">>
               /\ tried.done /\ tried.text \in {<<"<", "s", "w", "i", "t", "c", "h", "1", ">">>,
                                                <<"[", "s", "w", "i", "t", "c", "h", "1", "]">>}
                      => tried.search /\ tried.fullmatch
        /\ \A i \in 1..Len(delimiters.left) :
               ( /\ WordOrHyphen(base_prompt)
                 /\ TriedOn(<<delimiters.left[i]>> \o base_prompt \o <<delimiters.right[i]>>) ) =>
                   tried.search /\ tried.fullmatch

C12_Witness ==
    /\ delimiters = ComwareDelimiters
    /\ found_prompt = <<"<", "s", "w", "i", "t", "c", "h", "1", ">">>
    /\ TriedOn(<<"[", "s", "w", "i", "t", "c", "h", "1", "]">>)
    /\ tried.fullmatch

\* C13: every text the pattern matches in full is one opener, then the hostname
\* characters the pattern keeps, then word characters and hyphens only, then one
\* closer; no other character, "|" for one, is taken as a delimiter.
C13_PatternMatchesNothingElse ==
    (delimiters = ComwareDelimiters /\ tried.done /\ tried.fullmatch) =>
        LET text == tried.text
            kept == SubSeq(base_prompt, 1, IF Len(base_prompt) < TruncLen
                                           THEN Len(base_prompt) ELSE TruncLen)
        IN  /\ Len(text) >= Len(kept) + 2
            /\ text[1] \in Range(delimiters.left)
            /\ SubSeq(text, 2, Len(kept) + 1) = kept
            /\ WordOrHyphen(SubSeq(text, Len(kept) + 2, Len(text) - 1))
            /\ text[Len(text)] \in Range(delimiters.right)

\* C14 as claimed: the base prompt that is stored and returned has at most 12
\* characters.
C14_BasePromptTruncated ==
    setup.status = "returned" => Len(base_prompt) <= TruncLen /\ Len(setup.value) <= TruncLen

\* C14, amended: the base prompt that is stored and returned is the raw prompt without
\* its first and its last character, at full length; 12 bounds only the hostname
\* characters written into the pattern.
C14_BasePromptWhole ==
    setup.status = "returned" =>
        /\ found_prompt = <<found_prompt[1]>> \o base_prompt \o <<found_prompt[Len(found_prompt)]>>
        /\ setup.value = base_prompt
        /\ Len(Atoms(base_pattern, 1)) <= TruncLen + 3

C14_Witness ==
    /\ setup.status = "returned"
    /\ Len(base_prompt) > TruncLen

RECURSIVE Only(_, _)
Only(t, kinds) ==
    IF t = <<>> THEN <<>>
    ELSE IF Head(t)[1] \in kinds THEN <<Head(t)>> \o Only(Tail(t), kinds)
    ELSE Only(Tail(t), kinds)

\* writes and reads take turns, a write first
RECURSIVE Alternate(_, _)
Alternate(t, expected) ==
    IF t = <<>> THEN TRUE
    ELSE /\ Head(t)[1] = expected
         /\ Alternate(Tail(t), IF expected = "W" THEN "R" ELSE "W")

\* all that the reads of the call gave for an output, in the order it was read
RECURSIVE Heard(_)
Heard(t) ==
    IF t = <<>> THEN <<>>
    ELSE IF Head(t)[1] = "R" /\ Head(t)[2] # TimeoutUnit THEN Head(t)[2] \o Heard(Tail(t))
    ELSE Heard(Tail(t))

EnterWrite == <<"W", normalize_cmd(system_view_enter)>>

ExitWrite == <<"W", normalize_cmd(system_view_exit)>>

\* C16: every _system_view and _exit_system_view starts with a probe of its own (call,
\* blank line written, read), and what it does next follows from that probe alone,
\* never from earlier calls; so after somebody else has changed the mode between two
\* calls a _system_view that returns still ends on a probe reporting system view, an
\* _exit_system_view that returns on a probe reporting user view, and on a healthy
\* device both do return with the device in the mode asked for.
C16_ModeNeverCached ==
    /\ \A i \in CallsOf("_system_view") \cup CallsOf("_exit_system_view") :
           /\ Len(trace) > i => trace[i + 1] = <<"call", <<"_check_system_view">>>>
           /\ Len(trace) > i + 1 => trace[i + 2] = BlankLineWrite
           /\ Len(trace) > i + 2 => trace[i + 3][1] = "R"
    /\ \A i \in CallsOf("_system_view") :
           Len(trace) > i + 4 =>
               /\ trace[i + 4] = ProbeRet(FALSE) => trace[i + 5] = EnterWrite
               /\ trace[i + 4] = ProbeRet(TRUE) => trace[i + 5] = <<"ret", <<"_system_view">>>>
    /\ \A i \in CallsOf("_exit_system_view") :
           Len(trace) > i + 4 =>
               /\ trace[i + 4] = ProbeRet(TRUE) => trace[i + 5] = ExitWrite
               /\ trace[i + 4] = ProbeRet(FALSE) =>
                      trace[i + 5] = <<"ret", <<"_exit_system_view">>>>
    /\ stale # <<>> =>
           /\ (Done("_system_view") /\ result.status = "returned") => LastProbeIs(TRUE)
           /\ (Done("_exit_system_view") /\ result.status = "returned") => LastProbeIs(FALSE)
           /\ (healthy /\ Done("_system_view")) =>
                  result.status = "returned" /\ devMode = "SystemView"
           /\ (healthy /\ Done("_exit_system_view")) =>
                  result.status = "returned" /\ devMode = "UserView"

C16_Witness ==
    /\ stale = <<[op |-> "_system_view", status |-> "returned"]>>
    /\ Done("_system_view")
    /\ result.status = "returned"
    /\ WritesOf(system_view_enter) # {}

\* C17: whatever the device answers, one call of _system_view or _exit_system_view
\* writes its command at most once and probes at most once after it: no more than 3
\* writes and 3 reads; a call in which every read got an answer ends after exactly
\* 1 write and 1 read (the command is not written) or 3 writes and 3 reads.
C17_OneAttempt ==
    result.op \in {"_system_view", "_exit_system_view"} =>
        /\ Cardinality(Kind("W")) <= 3 /\ Cardinality(Kind("R")) <= 3
        /\ Cardinality(Events(EnterWrite) \cup Events(ExitWrite)) <= 1
        /\ Cardinality(CallsOf("_check_system_view")) <= 2
        /\ \A i \in Events(EnterWrite) \cup Events(ExitWrite) :
               Cardinality({j \in CallsOf("_check_system_view") : j > i}) <= 1
        /\ (result.status # "running" /\ Events(<<"R", TimeoutUnit>>) = {}) =>
               \/ /\ Cardinality(Kind("W")) = 1 /\ Cardinality(Kind("R")) = 1
                  /\ Events(EnterWrite) \cup Events(ExitWrite) = {}
               \/ /\ Cardinality(Kind("W")) = 3 /\ Cardinality(Kind("R")) = 3
                  /\ Only(trace, {"W"}) \in {<<BlankLineWrite, w, BlankLineWrite>> :
                                               w \in {EnterWrite, ExitWrite}}

C17_Witness ==
    /\ Done("_system_view")
    /\ RaisedValueError("Failed to enter to system view")
    /\ Cardinality(Kind("W")) = 3 /\ Cardinality(Kind("R")) = 3

\* C18: with one caller at a time, in probes, _system_view and _exit_system_view calls
\* writes and reads take turns, each write being followed by one read before the next
\* write; when a call returns or raises its ValueError it has read as often as it has
\* written and no unit is left unread for a later probe.
C18_ReadPositionInSync ==
    result.op \in {"_check_system_view", "_system_view", "_exit_system_view"} =>
        /\ Alternate(Only(trace, {"W", "R"}), "W")
        /\ Len(wire) <= 1
        /\ Len(wire) = Cardinality(Kind("W")) - Cardinality(Kind("R"))
        /\ ~misread
        /\ (result.status = "returned" \/ result.error = "ValueError") =>
               /\ Cardinality(Kind("R")) = Cardinality(Kind("W"))
               /\ wire = <<>>

C18_Witness ==
    /\ Done("_exit_system_view")
    /\ RaisedValueError("Failed to exit from system view")
    /\ Cardinality(Kind("R")) = 3
    /\ wire = <<>>

\* C19: in send_config_set with a non-empty list, _system_view has returned before the
\* delivery starts and before any command of the list is written; _exit_system_view
\* starts only after the delivery has returned, and only when exit_system_view is
\* true: when false nothing at all is written after the delivery; the text returned
\* is the line-feed-normalized concatenation of what was read for the enter output,
\* the delivery output and the exit output, in that order; a healthy device is left
\* in system view when exit_system_view is false, in user view when true.
C19_OrderAndOutput ==
    ( /\ result.op = "send_config_set"
      /\ ~result.config_commands.isNone
      /\ result.config_commands.list # <<>> ) =>
        /\ Len(trace) > 1 => trace[2] = <<"call", <<"_system_view">>>>
        /\ \A i \in CallsOf("super.send_config_set") :
               /\ trace[i - 1] = <<"ret", <<"_system_view">>>>
               /\ (Events(EnterWrite) \cup CallsOf("_system_view")
                       \cup {j \in CallsOf("_check_system_view") :
                                 \A k \in CallsOf("_exit_system_view") : j < k})
                      \subseteq 1..(i - 1)
        /\ \A c \in ConfigCommands : \A i \in WritesOf(c) :
               /\ \E j \in CallsOf("super.send_config_set") : j < i
               /\ Events(<<"ret", <<"super.send_config_set">>>>) \subseteq (i + 1)..Len(trace)
        /\ \A i \in CallsOf("_exit_system_view") :
               /\ result.exit_system_view
               /\ trace[i - 1] = <<"ret", <<"super.send_config_set">>>>
        /\ \A i \in Events(ExitWrite) : \E j \in CallsOf("_exit_system_view") : j < i
        /\ ~result.exit_system_view =>
               /\ CallsOf("_exit_system_view") = {} /\ Events(ExitWrite) = {}
               /\ \A i \in Events(<<"ret", <<"super.send_config_set">>>>) :
                      \A j \in Kind("W") \cup Kind("R") \cup Kind("call") : j < i
        /\ result.status = "returned" =>
               /\ result.value = normalize_linefeeds(Heard(trace))
               /\ \A k \in 1..Len(result.config_commands.list) :
                      WritesOf(result.config_commands.list[k]) # {}
               /\ healthy =>
                      devMode = IF result.exit_system_view THEN "UserView" ELSE "SystemView"

C19_Witness ==
    /\ Done("send_config_set")
    /\ result.status = "returned"
    /\ Len(result.config_commands.list) = 2
    /\ result.exit_system_view
    /\ Events(EnterWrite) # {} /\ Events(ExitWrite) # {}
    /\ ~healthy

\* ------------------------------------------------------ claims on two tasks

\* C20: nothing in the class keeps two tasks apart: tasks that take their turns only
\* between calls never read a unit answering the other task's write, and every call
\* returns; tasks that also switch at the reads do reach such a misread (see the
\* witness: both have written the enter command on a device that was in user view).
C20_SerializedNeverMisreads ==
    serialized =>
        /\ ~misread
        /\ parked.stack = <<>>
        /\ Len(wire) <= 1
        /\ result.status # "raised" /\ parked.result.status # "raised"

C20_Witness ==
    /\ ~serialized
    /\ misread
    /\ Events(EnterWrite) # {}
    /\ \E i \in 1..Len(parked.trace) : parked.trace[i] = EnterWrite

====
